---- MODULE Spec2Model ----
(***************************************************************************)
(* Model of the file-download layer of nuxt-the-usuals:                    *)
(*   - the POST /api/download-zip event handler (server),                  *)
(*   - the DownloadFilesButton component with useFileDownloader.download   *)
(*     and downloadZip (client).                                           *)
(*                                                                         *)
(* A JavaScript string is modelled as a sequence of pieces; the separator  *)
(* characters "/", "?", "#" and "." are always pieces of their own, so     *)
(* String.prototype.split on one of them is a split of the sequence.       *)
(***************************************************************************)
EXTENDS Integers, Sequences, FiniteSets, TLC

(* ----------------------------- bounds --------------------------------- *)
MaxFiles == 2
MaxClock == 1

(* ------------------------ strings and URLs ---------------------------- *)
\* String.prototype.split(sep): the pieces between the occurrences of sep.
RECURSIVE Split(_, _)
Split(s, sep) ==
  IF \A k \in 1..Len(s) : s[k] # sep
  THEN << s >>
  ELSE LET k == CHOOSE k \in 1..Len(s) :
                   s[k] = sep /\ \A j \in 1..(k - 1) : s[j] # sep
       IN  << SubSeq(s, 1, k - 1) >> \o Split(SubSeq(s, k + 1, Len(s)), sep)

\* Array.prototype.pop(): the last element.
Pop(a) == a[Len(a)]

\* JavaScript truthiness of a string: the empty string is falsy.
Truthy(s) == Len(s) > 0

\* An optional value (undefined or a string).
Undefined == [defined |-> FALSE, value |-> << >>]
Some(s) == [defined |-> TRUE, value |-> s]

UrlFile     == << "https:", "/", "/", "good", ".", "com", "/", "a", "/", "r", ".", "pdf" >>
UrlDir      == << "https:", "/", "/", "good", ".", "com", "/", "a", "/" >>
UrlQuery    == << "https:", "/", "/", "good", ".", "com", "/", "r", ".", "pdf", "?", "sig=k" >>
UrlHostOnly == << "https:", "/", "/", "good", ".", "com" >>
UrlEvil     == << "https:", "/", "/", "evil", ".", "com", "/", "x", ".", "bin" >>
Urls == { UrlFile, UrlDir, UrlQuery, UrlHostOnly, UrlEvil }

Filenames == { Undefined, Some(<< >>), Some(<< "r", ".", "pdf" >>) }
DownloadItem == [ url : Urls, filename : Filenames ]

Bytes == { "b1", "b2" }

RECURSIVE SeqsUpTo(_, _)
SeqsUpTo(S, n) ==
  IF n = 0 THEN { << >> }
  ELSE LET shorter == SeqsUpTo(S, n - 1)
       IN  shorter \cup { Append(q, x) : q \in { r \in shorter : Len(r) = n - 1 }, x \in S }

\* The JSON request bodies: files absent or a list, zipName absent or given.
Bodies ==
  { [ files |-> << >>, filesGiven |-> FALSE, zipName |-> z ] :
      z \in { Undefined, Some(<< "my", ".", "zip" >>) } }
  \cup
  { [ files |-> f, filesGiven |-> TRUE, zipName |-> z ] :
      f \in SeqsUpTo(DownloadItem, MaxFiles),
      z \in { Undefined, Some(<< "my", ".", "zip" >>) } }

(* -------------------- domain allowlist validator ----------------------- *)
AllowedDomains == { << "good", ".", "com" >> }

\* The host of an absolute URL; << >> when the URL does not parse.
HostOf(url) ==
  IF Len(url) >= 4 /\ SubSeq(url, 1, 3) = << "https:", "/", "/" >>
  THEN Split(Split(Split(SubSeq(url, 4, Len(url)), "/")[1], "?")[1], "#")[1]
  ELSE << >>

\* validateAllowedDomain(url, allowedDomains): TRUE when it returns, FALSE
\* when it throws ForbiddenDomain (also for an unparsable URL).
validateAllowedDomain(url, allowedDomains) ==
  /\ HostOf(url) # << >>
  /\ HostOf(url) \in allowedDomains

(* --------------------------- the handler ------------------------------- *)
VARIABLES
  pc,        \* position of the handler: start, fetching, reading, generating, done
  body,      \* the request body read by readBody
  i,         \* index of the item the for-of loop is at
  zip,       \* the JSZip archive: entries [name, data] in insertion order
  response,  \* what the handler returned or threw
  now,       \* the clock read by Date.now()
  validated, \* indexes of the items validateAllowedDomain was called for
  fetches,   \* the URLs an outbound fetch was issued for, in issue order
  progress,  \* per item: todo, fetching, reading, skipped, added, failed
  results,   \* per item, what its fetch did: pending, 2xx, non2xx, error
  stored     \* the zip.file calls made: [k, name, data], in call order

hvars == << pc, body, i, zip, response, now, validated, fetches, progress,
            results, stored >>

VARIABLES
  props,         \* the props of DownloadFilesButton
  isDownloading, \* the component's isDownloading ref
  clickPending,  \* a click waits in the debounce
  bpc,           \* position of handleDownload: idle, single_fetch, single_json,
                 \* single_blob, zip_fetch, zip_blob, settling
  settled,       \* how the awaited download promise settled: none, resolved, rejected
  toasts,        \* the titles passed to toast.add, in order
  saves,         \* the downloads the browser was made to save (anchor clicks)
  runs,          \* the number of handleDownload calls made
  invocation,    \* the last handleDownload call: the normalized files, the call made
  run            \* the handleDownload call in progress or last ended

bvars == << props, isDownloading, clickPending, bpc, settled, toasts, saves,
            runs, invocation, run >>

vars == << hvars, bvars >>

NoBody == [ files |-> << >>, filesGiven |-> FALSE, zipName |-> Undefined ]
NoResponse == [ status |-> 0, statusMessage |-> "", contentType |-> "",
                filename |-> << >>, contentLength |-> 0, zipBuffer |-> << >> ]

\* createError / an uncaught rejection: an error response with a JSON body.
ErrorResponse(code, msg) ==
  [ status |-> code, statusMessage |-> msg, contentType |-> "application/json",
    filename |-> << >>, contentLength |-> 0, zipBuffer |-> << >> ]

\* body.zipName ?? "files.zip"
ZipName(b) ==
  IF b.zipName.defined THEN b.zipName.value ELSE << "files", ".", "zip" >>

\* !body?.files?.length
NoFilesProvidedMissingOnly(b) == ~b.filesGiven
NoFilesProvided(b) == ~b.filesGiven \/ Len(b.files) = 0

\* The items body.files.forEach passes over.
ForEachFirstOnly(files) == { 1 }
ForEach(files) == 1..Len(files)

\* The items validateAllowedDomain is called for: forEach stops at a throw.
ValidatedItems(files) ==
  { k \in ForEach(files) :
      \A j \in ForEach(files) :
         j < k => validateAllowedDomain(files[j].url, AllowedDomains) }

\* The forEach throws when validateAllowedDomain throws for a visited item.
ValidationThrows(files) ==
  \E k \in ForEach(files) : ~validateAllowedDomain(files[k].url, AllowedDomains)

\* The k-th item the for-of loop visits.
FileAtReversed(files, k) == files[Len(files) - k + 1]
FileAt(files, k) == files[k]

\* if (!res.ok) continue
ContinueNever(ok) == FALSE
Continue(ok) == ~ok

\* file.filename || file.url.split("/").pop() || `file-${Date.now()}`
Filename(file, t) ==
  IF file.filename.defined /\ Truthy(file.filename.value)
  THEN file.filename.value
  ELSE IF Truthy(Pop(Split(file.url, "/")))
       THEN Pop(Split(file.url, "/"))
       ELSE << "file-", ToString(t) >>

\* zip.file(name, data): replaces the data of an existing entry in place,
\* appends a new entry otherwise.
ZipFileKeepFirst(z, name, data) ==
  IF \E k \in 1..Len(z) : z[k].name = name
  THEN z
  ELSE Append(z, [ name |-> name, data |-> data ])
ZipFile(z, name, data) ==
  IF \E k \in 1..Len(z) : z[k].name = name
  THEN [ k \in 1..Len(z) |->
           IF z[k].name = name THEN [ name |-> name, data |-> data ] ELSE z[k] ]
  ELSE Append(z, [ name |-> name, data |-> data ])

HandlerInit ==
  /\ pc = "start"
  /\ body = NoBody
  /\ i = 0
  /\ zip = << >>
  /\ response = NoResponse
  /\ now = 0
  /\ validated = { }
  /\ fetches = << >>
  /\ progress = << >>
  /\ results = << >>
  /\ stored = << >>

\* The loop moves to item k: issues its fetch, or leaves the loop and starts
\* zip.generateAsync when the list is exhausted.
Advance(k, files, prog) ==
  IF k <= Len(files)
  THEN /\ pc' = "fetching"
       /\ i' = k
       /\ fetches' = Append(fetches, FileAt(files, k).url)
       /\ progress' = [ prog EXCEPT ![k] = "fetching" ]
  ELSE /\ pc' = "generating"
       /\ i' = k
       /\ fetches' = fetches
       /\ progress' = prog

\* readBody resolves; the handler runs up to its first await in the loop.
HandleRequest ==
  /\ pc = "start"
  /\ \E b \in Bodies :
       /\ body' = b
       /\ IF NoFilesProvided(b)
          THEN /\ pc' = "done"
               /\ response' = ErrorResponse(400, "No files provided")
               /\ UNCHANGED << i, validated, fetches, progress, results >>
          ELSE /\ validated' = ValidatedItems(b.files)
               /\ results' = [ k \in 1..Len(b.files) |-> "pending" ]
               /\ IF ValidationThrows(b.files)
                  THEN /\ pc' = "done"
                       /\ response' = ErrorResponse(403, "ForbiddenDomain")
                       /\ progress' = [ k \in 1..Len(b.files) |-> "todo" ]
                       /\ UNCHANGED << i, fetches >>
                  ELSE /\ response' = response
                       /\ Advance(1, b.files, [ k \in 1..Len(b.files) |-> "todo" ])
  /\ UNCHANGED << zip, now, stored >>
  /\ UNCHANGED bvars

\* await fetch(file.url) rejects: nothing catches it, the handler throws.
FetchRejects ==
  /\ pc = "fetching"
  /\ pc' = "done"
  /\ results' = [ results EXCEPT ![i] = "error" ]
  /\ progress' = [ progress EXCEPT ![i] = "failed" ]
  /\ response' = ErrorResponse(500, "Server Error")
  /\ UNCHANGED << body, i, zip, now, validated, fetches, stored >>
  /\ UNCHANGED bvars

\* await fetch(file.url) resolves: a non-2xx response is passed over, for a
\* 2xx response res.arrayBuffer() starts.
FetchResolves ==
  /\ pc = "fetching"
  /\ \E ok \in BOOLEAN :
       /\ results' = [ results EXCEPT ![i] = IF ok THEN "2xx" ELSE "non2xx" ]
       /\ IF Continue(ok)
          THEN Advance(i + 1, body.files, [ progress EXCEPT ![i] = "skipped" ])
          ELSE /\ pc' = "reading"
               /\ progress' = [ progress EXCEPT ![i] = "reading" ]
               /\ UNCHANGED << i, fetches >>
  /\ UNCHANGED << body, zip, response, now, validated, stored >>
  /\ UNCHANGED bvars

\* await res.arrayBuffer() resolves: name the entry, add it, go on.
BodyRead ==
  /\ pc = "reading"
  /\ \E data \in Bytes :
       LET filename == Filename(FileAt(body.files, i), now)
       IN  /\ zip' = ZipFile(zip, filename, data)
           /\ stored' = Append(stored, [ k |-> i, name |-> filename, data |-> data ])
  /\ Advance(i + 1, body.files, [ progress EXCEPT ![i] = "added" ])
  /\ UNCHANGED << body, response, now, validated, results >>
  /\ UNCHANGED bvars

\* await zip.generateAsync resolves: headers are set, the buffer returned.
Generated ==
  /\ pc = "generating"
  /\ pc' = "done"
  /\ response' = [ status |-> 200, statusMessage |-> "",
                   contentType |-> "application/zip",
                   filename |-> ZipName(body),
                   contentLength |-> Len(zip), zipBuffer |-> zip ]
  /\ UNCHANGED << body, i, zip, now, validated, fetches, progress, results, stored >>
  /\ UNCHANGED bvars

\* Time passes.
Tick ==
  /\ now < MaxClock
  /\ now' = now + 1
  /\ UNCHANGED << pc, body, i, zip, response, validated, fetches, progress,
                  results, stored >>
  /\ UNCHANGED bvars

Next ==
  \/ HandleRequest
  \/ FetchRejects
  \/ FetchResolves
  \/ BodyRead
  \/ Generated
  \/ Tick

(* --------------------------- the button -------------------------------- *)
MaxPropFiles == 2
MaxRuns == 1

\* JavaScript a || b on strings.
Or(a, b) == IF Truthy(a) THEN a ELSE b

\* String.prototype.includes for a separator piece.
Includes(s, c) == \E k \in 1..Len(s) : s[k] = c

FileWithUrl ==
  { [ image_url |-> Some(UrlFile), url |-> Undefined ],
    [ image_url |-> Undefined, url |-> Some(UrlQuery) ],
    [ image_url |-> Undefined, url |-> Undefined ] }

\* props.files: undefined, a string, or an array of file objects.
PropFiles ==
  { [ kind |-> "undefined", str |-> << >>, arr |-> << >> ] }
  \cup { [ kind |-> "string", str |-> u, arr |-> << >> ] : u \in { << >>, UrlQuery } }
  \cup { [ kind |-> "array", str |-> << >>, arr |-> a ] :
           a \in SeqsUpTo(FileWithUrl, MaxPropFiles) }

PropFilenames ==
  { [ defined |-> FALSE, value |-> << >> ],
    [ defined |-> TRUE, value |-> << << "Invoice" >> >> ] }

\* withDefaults(defineProps<Props>(), ...)
Props ==
  [ files : PropFiles, filenames : PropFilenames,
    zipName : { << "download", ".", "zip" >> }, baseName : { << "file" >> },
    showToast : BOOLEAN ]

\* normalizedFiles, the branch for a single URL string.
NormalizeString(str, baseName) ==
  LET urlParts == Split(str, "?")[1]
      extension == Or(Pop(Split(urlParts, ".")), << >>)
      filename == Or(Pop(Split(urlParts, "/")), baseName \o << "." >> \o extension)
  IN  << [ url |-> str, filename |-> Some(filename) ] >>

\* normalizedFiles, the callback of props.files.map (index from 0).
NormalizeObject(file, index, p) ==
  LET fileUrl == Or(file.image_url.value, Or(file.url.value, << >>))
      urlParts == Split(fileUrl, "?")[1]
      extension == Or(Pop(Split(urlParts, ".")), << >>)
      custom == /\ p.filenames.defined
                /\ index + 1 <= Len(p.filenames.value)
                /\ Truthy(p.filenames.value[index + 1])
      given == p.filenames.value[index + 1]
      filename ==
        IF custom
        THEN IF ~Includes(given, ".") /\ Truthy(extension)
             THEN given \o << "." >> \o extension
             ELSE given
        ELSE p.baseName \o << "-", ToString(index + 1) >>
               \o (IF Truthy(extension) THEN << "." >> \o extension ELSE << >>)
  IN  [ url |-> fileUrl, filename |-> Some(filename) ]

\* normalizedFiles
NormalizedFiles(p) ==
  IF p.files.kind = "undefined" \/ (p.files.kind = "string" /\ ~Truthy(p.files.str))
  THEN << >>
  ELSE IF p.files.kind = "string"
  THEN NormalizeString(p.files.str, p.baseName)
  ELSE [ k \in 1..Len(p.files.arr) |-> NormalizeObject(p.files.arr[k], k - 1, p) ]

\* isSingleFile
isSingleFileAnyCount(nf) == Len(nf) >= 1
isSingleFile(nf) == Len(nf) = 1

\* hasFiles
hasFiles(nf) == Len(nf) > 0

\* :disabled="isDownloading || !hasFiles"
Disabled == isDownloading \/ ~hasFiles(NormalizedFiles(props))

\* if (showToast) toast.add({ title, ... }) and showToast?.add({ title, ... })
ToastAdd(ts, show, title) == IF show THEN Append(ts, title) ELSE ts

\* finally { isDownloading.value = false }
FinallyOnlyAfterSuccess(how) == how = "rejected"
Finally(how) == FALSE

NoRun == [ path |-> "none", failed |-> FALSE, toastsBefore |-> 0 ]
NoInvocation == [ normalized |-> << >>, call |-> "never", fileUrl |-> << >>,
                  items |-> << >> ]

ButtonInit ==
  /\ props \in Props
  /\ isDownloading = FALSE
  /\ clickPending = FALSE
  /\ bpc = "idle"
  /\ settled = "none"
  /\ toasts = << >>
  /\ saves = << >>
  /\ runs = 0
  /\ invocation = NoInvocation
  /\ run = NoRun

\* The parent renders the button with another files prop. handleDownload
\* reads props.files only in its synchronous head, so a change made while it
\* is suspended is taken once it has ended.
UpdateFiles ==
  /\ bpc = "idle"
  /\ \E f \in PropFiles : f # props.files /\ props' = [ props EXCEPT !.files = f ]
  /\ UNCHANGED << isDownloading, clickPending, bpc, settled, toasts, saves,
                  runs, invocation, run >>
  /\ UNCHANGED hvars

\* @click on the enabled button: the debounce (re)arms.
Click ==
  /\ ~Disabled
  /\ clickPending' = TRUE
  /\ UNCHANGED << props, isDownloading, bpc, settled, toasts, saves,
                  runs, invocation, run >>
  /\ UNCHANGED hvars

\* The debounce elapses: handleDownload runs up to its first await, through
\* the synchronous head of download() or downloadZip().
HandleDownload ==
  /\ clickPending
  /\ bpc = "idle"
  /\ runs < MaxRuns
  /\ runs' = runs + 1
  /\ clickPending' = FALSE
  /\ LET nf == NormalizedFiles(props)
         show == props.showToast
     IN  IF ~hasFiles(nf)
         THEN /\ toasts' = ToastAdd(toasts, show, "No files to download")
              /\ invocation' = (
                   [ normalized |-> nf, call |-> "none", fileUrl |-> << >>,
                     items |-> << >> ])
              /\ UNCHANGED << isDownloading, bpc, settled, run >>
         ELSE /\ isDownloading' = TRUE
              /\ IF isSingleFile(nf)
                 THEN /\ invocation' = (
                           [ normalized |-> nf, call |-> "downloadSingleFile",
                             fileUrl |-> nf[1].url, items |-> << >> ])
                      /\ run' = [ path |-> "single", failed |-> FALSE,
                                  toastsBefore |-> Len(toasts) ]
                      /\ IF ~Truthy(nf[1].url)
                         THEN /\ toasts' = ToastAdd(toasts, show, "File URL not available")
                              /\ bpc' = "settling"
                              /\ settled' = "resolved"
                         ELSE /\ bpc' = "single_fetch"
                              /\ UNCHANGED << toasts, settled >>
                 ELSE /\ invocation' = (
                           [ normalized |-> nf, call |-> "downloadZip",
                             fileUrl |-> << >>, items |-> nf ])
                      /\ run' = [ path |-> "zip", failed |-> FALSE,
                                  toastsBefore |-> Len(toasts) ]
                      /\ bpc' = "zip_fetch"
                      /\ UNCHANGED << toasts, settled >>
  /\ UNCHANGED << props, saves >>
  /\ UNCHANGED hvars

\* download(): the catch block adds the toast and rethrows, but the finally
\* block returns, so the promise resolves.
SingleFails ==
  /\ toasts' = ToastAdd(toasts, props.showToast, "Download failed")
  /\ run' = [ run EXCEPT !.failed = TRUE ]
  /\ bpc' = "settling"
  /\ settled' = "resolved"
  /\ UNCHANGED << props, isDownloading, clickPending, saves, runs, invocation >>
  /\ UNCHANGED hvars

\* download(): the anchor is clicked and the promise resolves.
SingleSaves ==
  /\ saves' = Append(saves, << >>)
  /\ bpc' = "settling"
  /\ settled' = "resolved"
  /\ UNCHANGED << props, isDownloading, clickPending, toasts, runs, invocation, run >>
  /\ UNCHANGED hvars

\* download(): await fetch(`/api/download?url=...`) settles.
SingleFetchSettles ==
  /\ bpc = "single_fetch"
  /\ \E r \in { "rejects", "not ok", "json", "binary" } :
       IF r \in { "rejects", "not ok" }
       THEN SingleFails
       ELSE /\ bpc' = IF r = "json" THEN "single_json" ELSE "single_blob"
            /\ UNCHANGED << props, isDownloading, clickPending, settled, toasts,
                            saves, runs, invocation, run >>
            /\ UNCHANGED hvars

\* download(): await response.json() settles; either way an error is thrown.
SingleJsonSettles ==
  /\ bpc = "single_json"
  /\ SingleFails

\* download(): await response.blob() settles.
SingleBlobSettles ==
  /\ bpc = "single_blob"
  /\ \E ok \in BOOLEAN : IF ok THEN SingleSaves ELSE SingleFails

\* downloadZip(): the catch block adds the toast and rethrows.
ZipFails ==
  /\ toasts' = ToastAdd(toasts, props.showToast, "Download failed")
  /\ run' = [ run EXCEPT !.failed = TRUE ]
  /\ bpc' = "settling"
  /\ settled' = "rejected"
  /\ UNCHANGED << props, isDownloading, clickPending, saves, runs, invocation >>
  /\ UNCHANGED hvars

\* downloadZip(): await fetch("/api/download-zip", ...) settles.
ZipFetchSettles ==
  /\ bpc = "zip_fetch"
  /\ \E r \in { "rejects", "not ok", "ok" } :
       IF r \in { "rejects", "not ok" }
       THEN ZipFails
       ELSE /\ bpc' = "zip_blob"
            /\ UNCHANGED << props, isDownloading, clickPending, settled, toasts,
                            saves, runs, invocation, run >>
            /\ UNCHANGED hvars

\* downloadZip(): await res.blob() settles.
ZipBlobSettles ==
  /\ bpc = "zip_blob"
  /\ \E ok \in BOOLEAN :
       IF ok
       THEN /\ saves' = Append(saves, props.zipName)
            /\ bpc' = "settling"
            /\ settled' = "resolved"
            /\ UNCHANGED << props, isDownloading, clickPending, toasts,
                            runs, invocation, run >>
            /\ UNCHANGED hvars
       ELSE ZipFails

\* handleDownload resumes after the await: catch, then finally.
Settle ==
  /\ bpc = "settling"
  /\ toasts' = IF settled = "rejected"
               THEN ToastAdd(toasts, props.showToast, "Download failed")
               ELSE toasts
  /\ isDownloading' = Finally(settled)
  /\ bpc' = "idle"
  /\ settled' = "none"
  /\ UNCHANGED << props, clickPending, saves, runs, invocation, run >>
  /\ UNCHANGED hvars

\* The handler alone: the button is rendered without files and left alone.
Init ==
  /\ HandlerInit
  /\ ButtonInit
  /\ props.files.kind = "undefined"
  /\ ~props.filenames.defined
  /\ props.showToast

Spec == Init /\ [][Next]_vars

InitButton == HandlerInit /\ ButtonInit

NextButton ==
  \/ UpdateFiles
  \/ Click
  \/ HandleDownload
  \/ SingleFetchSettles
  \/ SingleJsonSettles
  \/ SingleBlobSettles
  \/ ZipFetchSettles
  \/ ZipBlobSettles
  \/ Settle

SpecButton == InitButton /\ [][NextButton]_vars

\* The browser settles every fetch, json() and blob() promise and runs the
\* continuation of the await; at most one of these steps is enabled at a time.
Resume ==
  \/ SingleFetchSettles
  \/ SingleJsonSettles
  \/ SingleBlobSettles
  \/ ZipFetchSettles
  \/ ZipBlobSettles
  \/ Settle

LiveSpecButton == SpecButton /\ WF_vars(Resume)


(* ------------------------ handler properties --------------------------- *)
\* The request the handler has read names at least one file.
RequestHasFiles == pc # "start" /\ body.filesGiven /\ Len(body.files) > 0

Forbidden(k) == ~validateAllowedDomain(body.files[k].url, AllowedDomains)
AllAllowed == \A k \in 1..Len(body.files) : ~Forbidden(k)

\* C1: a files list with at least one URL failing the allowlist check ends
\* with the forbidden-domain error and no outbound fetch is ever issued,
\* not even for allowed URLs earlier in the list.
C1_ForbiddenNoFetch ==
  (RequestHasFiles /\ ~AllAllowed) =>
     /\ pc = "done"
     /\ response.statusMessage = "ForbiddenDomain"
     /\ response.status \in 400..499
     /\ fetches = << >>
     /\ \A k \in 1..Len(body.files) : results[k] = "pending"

C1_Witness ==
  /\ pc = "done"
  /\ Len(body.files) = 2
  /\ ~Forbidden(1)
  /\ Forbidden(2)
  /\ response.statusMessage = "ForbiddenDomain"

\* C2: a body without files, or with an empty files list, fails with
\* 400 "No files provided"; nothing is validated, fetched or serialized.
C2_NoFilesBadRequest ==
  (pc # "start" /\ (~body.filesGiven \/ body.files = << >>)) =>
     /\ pc = "done"
     /\ response.status = 400
     /\ response.statusMessage = "No files provided"
     /\ validated = { }
     /\ fetches = << >>
     /\ zip = << >>
     /\ response.zipBuffer = << >>
     /\ response.contentType # "application/zip"

C2_Witness ==
  /\ pc = "done"
  /\ body.filesGiven
  /\ body.files = << >>
  /\ response.status = 400

\* The names of the entries of an archive.
Names(z) == { z[k].name : k \in 1..Len(z) }

\* C3: for a non-empty, fully allowed list whose fetches all return (2xx or
\* not), the response is 200 with a ZIP whose entries are exactly those of
\* the items whose fetch returned 2xx; none when every fetch was non-2xx.
C3_NonOkSkipped ==
  (pc = "done" /\ RequestHasFiles /\ AllAllowed
     /\ \A k \in 1..Len(body.files) : results[k] \in { "2xx", "non2xx" }) =>
     /\ response.status = 200
     /\ response.contentType = "application/zip"
     /\ \A k \in 1..Len(body.files) :
          results[k] = "2xx" <=> \E c \in 1..Len(stored) : stored[c].k = k
     /\ Names(response.zipBuffer) =
          { stored[c].name : c \in { d \in 1..Len(stored) : results[stored[d].k] = "2xx" } }
     /\ ((\A k \in 1..Len(body.files) : results[k] = "non2xx")
           => response.zipBuffer = << >>)

C3_Witness ==
  /\ pc = "done"
  /\ Len(body.files) = 2
  /\ results = << "non2xx", "2xx" >>
  /\ response.status = 200
  /\ Len(response.zipBuffer) = 1

C3_WitnessAllFail ==
  /\ pc = "done"
  /\ Len(body.files) = 2
  /\ results = << "non2xx", "non2xx" >>
  /\ response.status = 200
  /\ response.zipBuffer = << >>

\* C4 (as claimed): an item whose fetch fails with a transport error is
\* passed over and the request still completes with a ZIP response.
C4_TransportErrorSkipped ==
  (pc = "done" /\ \E k \in 1..Len(results) : results[k] = "error") =>
     /\ response.status = 200
     /\ response.contentType = "application/zip"

\* C5: when several fetched items resolve to one stored filename, the
\* archive holds exactly one entry of that name, with the bytes of the
\* item that comes last in request order.
LastCall(name) ==
  CHOOSE c \in 1..Len(stored) :
     /\ stored[c].name = name
     /\ \A d \in 1..Len(stored) : stored[d].name = name => stored[d].k <= stored[c].k

C5_LastDeclaredWins ==
  (pc = "done" /\ response.status = 200) =>
     \A c \in 1..Len(stored) :
        /\ Cardinality({ e \in 1..Len(response.zipBuffer) :
                           response.zipBuffer[e].name = stored[c].name }) = 1
        /\ \A e \in 1..Len(response.zipBuffer) :
             response.zipBuffer[e].name = stored[c].name =>
               response.zipBuffer[e].data = stored[LastCall(stored[c].name)].data

C5_Witness ==
  /\ pc = "done"
  /\ response.status = 200
  /\ Len(stored) = 2
  /\ stored[1].name = stored[2].name
  /\ stored[1].data # stored[2].data
  /\ Len(response.zipBuffer) = 1

\* The path of an absolute URL: what follows the host, up to "?" or "#".
PathOf(url) ==
  LET rest == SubSeq(url, 4 + Len(HostOf(url)), Len(url))
  IN  Split(Split(rest, "?")[1], "#")[1]

\* The last path segment of a URL; << >> when it has none.
LastPathSegment(url) ==
  IF PathOf(url) = << >> THEN << >> ELSE Pop(Split(PathOf(url), "/"))

\* C6 (as claimed): the entry name is the item's filename when one is
\* provided, else the last path segment of its URL, and a synthesized
\* file-<timestamp> only when the URL has no last path segment.
C6_FilenameResolution ==
  \A c \in 1..Len(stored) :
     LET file == body.files[stored[c].k]
         name == stored[c].name
     IN  IF file.filename.defined /\ file.filename.value # << >>
         THEN name = file.filename.value
         ELSE IF LastPathSegment(file.url) # << >>
         THEN name = LastPathSegment(file.url)
         ELSE \E t \in 0..MaxClock : name = << "file-", ToString(t) >>

\* C8: the fetches are issued in list order, one at a time: while item k is
\* being fetched or read, every earlier item has returned and, if 2xx, has
\* been added to the archive, and no later item has been touched;
\* serialization starts only after the last item has been processed.
Finished(k) ==
  \/ progress[k] = "skipped" /\ results[k] = "non2xx"
  \/ /\ progress[k] = "added"
     /\ results[k] = "2xx"
     /\ \E c \in 1..Len(stored) :
          stored[c].k = k /\ stored[c].name \in Names(zip)

C8_SequentialInOrder ==
  RequestHasFiles =>
     /\ Len(fetches) <= Len(body.files)
     /\ \A k \in 1..Len(fetches) : fetches[k] = body.files[k].url
     /\ \A k \in 1..Len(body.files) :
          /\ progress[k] # "todo" <=> k <= Len(fetches)
          /\ progress[k] \in { "fetching", "reading", "failed" } =>
               /\ k = Len(fetches)
               /\ \A j \in 1..(k - 1) : Finished(j)
     /\ (pc = "generating" \/ response.status = 200) =>
          \A k \in 1..Len(body.files) : Finished(k)

C8_Witness ==
  /\ pc = "fetching"
  /\ Len(body.files) = 2
  /\ body.files[1].url # body.files[2].url
  /\ i = 2
  /\ progress[1] = "added"
  /\ Len(zip) = 1

(* ------------------------- button properties --------------------------- *)
\* C7: handleDownload routes by the number of normalized files: one file
\* goes to the single-file download and not to the ZIP download, two or more
\* go to the ZIP download with all normalized files and not to the
\* single-file download, none goes to neither.
C7_RoutesByCount ==
  invocation.call # "never" =>
     /\ Len(invocation.normalized) = 0 => invocation.call = "none"
     /\ Len(invocation.normalized) = 1 =>
          /\ invocation.call = "downloadSingleFile"
          /\ invocation.fileUrl = invocation.normalized[1].url
     /\ Len(invocation.normalized) >= 2 =>
          /\ invocation.call = "downloadZip"
          /\ invocation.items = invocation.normalized

C7_Witness ==
  /\ Len(invocation.normalized) = 2
  /\ invocation.call = "downloadZip"
  /\ bpc = "zip_fetch"

C7_WitnessSingle ==
  /\ Len(invocation.normalized) = 1
  /\ invocation.call = "downloadSingleFile"
  /\ bpc = "single_fetch"

C7_WitnessNone ==
  /\ invocation.normalized = << >>
  /\ invocation.call = "none"

\* C9: isDownloading is true only while a handleDownload call is in
\* progress, and once true it becomes false again, however the download
\* ended.
C9_IsDownloadingResets ==
  /\ [](isDownloading => bpc # "idle")
  /\ (isDownloading ~> ~isDownloading)

C9_Witness ==
  /\ bpc = "idle"
  /\ ~isDownloading
  /\ run.path = "zip"
  /\ run.failed

\* The "Download failed" toasts the last handleDownload call added.
FailedToasts ==
  Cardinality({ k \in (run.toastsBefore + 1)..Len(toasts) : toasts[k] = "Download failed" })

\* C10 (as claimed): a failed download adds exactly one "Download failed"
\* toast for the click when showToast is true, on the single-file and on the
\* ZIP path, and none when showToast is false.
C10_OneFailureToast ==
  (bpc = "idle" /\ run.failed) =>
     FailedToasts = IF props.showToast THEN 1 ELSE 0
====
